---- MODULE Spec2Model ----
(***************************************************************************)
(* PMSM loss-estimation scripts (FEMM post-processing).                    *)
(*                                                                         *)
(*   01  torque-vs-beta grid search        (src/unnamed/part_000, 1-120)   *)
(*   02  field sampling sweep              (src/Compute_Bx-Az-Te_...py)    *)
(*   03  FFT / harmonic features           (src/unnamed/part_000, 123-180) *)
(*   04  loss calculation                  (src/Loss_Calculation_...py)    *)
(*                                                                         *)
(* The scripts run one after the other in one interpreter session and      *)
(* hand their results over as global names.  Each stage is a specification *)
(* of its own over the same variables: SpecOpt (01 followed by the lookup  *)
(* of 02), SpecFFT (03) and SpecLoss (04).                                 *)
(***************************************************************************)
EXTENDS Integers, Sequences, FiniteSets, TLC

(***************************************************************************)
(* Real numbers.  A value is a fraction [n, d] in lowest terms with d >= 0;*)
(* d = 0 holds the IEEE specials numpy produces instead of raising:        *)
(* [0,0] is nan, [1,0] is +inf, [-1,0] is -inf.  Rounding is not modelled. *)
(***************************************************************************)
Abs(x) == IF x < 0 THEN -x ELSE x

Sign(x) == IF x < 0 THEN -1 ELSE IF x > 0 THEN 1 ELSE 0

RECURSIVE GCD(_, _)
GCD(a, b) == IF b = 0 THEN a ELSE GCD(b, a % b)

Rat(n, d) ==
    IF d = 0 THEN [n |-> Sign(n), d |-> 0]
    ELSE LET g == GCD(Abs(n), Abs(d))
         IN  [n |-> Sign(d) * (n \div g), d |-> Abs(d) \div g]

R(k) == [n |-> k, d |-> 1]

NaN == [n |-> 0, d |-> 0]

IsNaN(x) == x.d = 0 /\ x.n = 0

IsFinite(x) == x.d # 0

RAdd(x, y) ==
    IF x.d = 0 /\ y.d = 0
    THEN (IF x.n = y.n THEN x ELSE NaN)
    ELSE Rat(x.n * y.d + y.n * x.d, x.d * y.d)

RNeg(x) == [n |-> -x.n, d |-> x.d]

RSub(x, y) == RAdd(x, RNeg(y))

RMul(x, y) == Rat(x.n * y.n, x.d * y.d)

RDiv(x, y) ==
    IF y.n = 0 THEN Rat(x.n * y.d, 0)
    ELSE Rat(x.n * y.d * Sign(y.n), x.d * Abs(y.n))

RSign(x) == Sign(x.n)

\* IEEE comparisons: any comparison with nan is false
RLeq(x, y) == ~IsNaN(x) /\ ~IsNaN(y) /\ x.n * y.d <= y.n * x.d

RLt(x, y) ==
    /\ ~IsNaN(x)
    /\ ~IsNaN(y)
    /\ IF x.d = 0 /\ y.d = 0 THEN x.n < y.n ELSE x.n * y.d < y.n * x.d

RECURSIVE RSum(_)
RSum(s) == IF s = <<>> THEN R(0) ELSE RAdd(Head(s), RSum(Tail(s)))

\* numpy's vector @ vector
Dot(a, b) == RSum([k \in 1..Len(a) |-> RMul(a[k], b[k])])

(***************************************************************************)
(* Bounds of the model.                                                    *)
(***************************************************************************)
\* how many leading entries of each script's current list are run
NCur == 2

\* torque values the external solver may return for a solve
TorqueVals == {-1, 0, 1}

VARIABLES
    \* 01 torque-vs-beta search
    optPc, cur, ti, bi, max_torque, max_angle, torque_vec, torque_max_angles,
    \* 02 field sampling sweep (the lookup of the optimal angle)
    sweepPc, sweep_i, Beta,
    \* 03 harmonic features: samples in, spectra out
    N, ns, nn, b_flux, A_flux, bsq, bsq_mod, bsq_ex, bsq_btt, Jm, fft_i,
    \* 04 loss calculation: inputs of the sampling sweep
    g, v, Is_vec, Tq,
    \* 04 loss calculation: position and names the script assigns
    lossPc, PhaseOhmicLoss, Jm_vec, corr_i, loss_i, loss_j,
    rotor_loss, stator_loss, prox_loss, magnet_loss, phase_loss, total_loss,
    total_loss_matrix, stator_loss_matrix, rotor_loss_matrix,
    magnet_loss_matrix, phase_loss_matrix, prox_loss_matrix, Speed,
    Pin, Tin, Pout, Tout, Eff

optVars == <<optPc, cur, ti, bi, max_torque, max_angle, torque_vec,
             torque_max_angles>>

sweepVars == <<sweepPc, sweep_i, Beta>>

fftVars == <<N, ns, nn, b_flux, A_flux, bsq, bsq_mod, bsq_ex, bsq_btt, Jm, fft_i>>

lossInputs == <<g, v, Is_vec, Tq>>

lossLocals == <<rotor_loss, stator_loss, prox_loss, magnet_loss, phase_loss,
                total_loss>>

lossMatrices == <<total_loss_matrix, stator_loss_matrix, rotor_loss_matrix,
                  magnet_loss_matrix, phase_loss_matrix, prox_loss_matrix, Speed,
                  Pin, Tin, Pout, Tout, Eff>>

lossVars == <<lossInputs, lossPc, PhaseOhmicLoss, Jm_vec, corr_i, loss_i, loss_j,
              lossLocals, lossMatrices>>

vars == <<optVars, sweepVars, fftVars, lossVars>>

(***************************************************************************)
(* 01 - torque vs beta.  Currents are held in units of 0.01 A so that the  *)
(* keys of the two scripts are integers on one scale.                      *)
(***************************************************************************)
N_theta_steps == 1

N_beta_steps == 3

\* iss of the search script, in 0.01 A
iss_opt == <<1000, 1296, 2185, 3667, 5741, 8407, 11667, 15519, 19963, 25000>>

\* iss of the sampling script, in 0.01 A
iss_sweep == <<10, 12, 19, 31, 48, 69, 94, 125, 160, 200>>

Min(a, b) == IF a < b THEN a ELSE b

NOpt == Min(NCur, Len(iss_opt))

NSweep == Min(NCur, Len(iss_sweep))

\* np.linspace(0, 90, N_beta_steps)[k-1], degrees
BETA(k) == IF N_beta_steps = 1 THEN R(0) ELSE Rat(90 * (k - 1), N_beta_steps - 1)

BetaSet == {BETA(k) : k \in 1..N_beta_steps}

\* max_torque = -np.inf
NegInf == [n |-> -1, d |-> 0]

\* max_angle = None
None == <<>>

\* a comparison that would keep the last of equal maxima: torque >= max_torque
ExceedsOrTies(torque, m) == RLeq(m, R(torque))

\* line 99: if torque > max_torque
Exceeds(torque, m) == RLt(m, R(torque))

OptInit ==
    /\ optPc = "for_current"
    /\ cur = 1
    /\ ti = 1
    /\ bi = 1
    /\ max_torque = NegInf
    /\ max_angle = None
    /\ torque_vec = <<>>
    /\ torque_max_angles = <<>>

\* lines 56-58: next current, reset the running maximum
OptNextCurrent ==
    /\ optPc = "for_current"
    /\ IF cur <= NOpt
       THEN /\ max_torque' = NegInf
            /\ max_angle' = None
            /\ ti' = 1
            /\ bi' = 1
            /\ optPc' = "for_beta"
       ELSE /\ optPc' = "done"
            /\ UNCHANGED <<max_torque, max_angle, ti, bi>>
    /\ UNCHANGED <<cur, torque_vec, torque_max_angles>>

\* lines 60-110: one solve at (theta_r, beta); the solver answers `torque`
OptSample ==
    /\ optPc = "for_beta"
    /\ \E torque \in TorqueVals :
         /\ torque_vec' = Append(torque_vec, torque)
         /\ IF Exceeds(torque, max_torque)
            THEN /\ max_torque' = R(torque)
                 /\ max_angle' = <<BETA(bi)>>
            ELSE UNCHANGED <<max_torque, max_angle>>
    /\ IF bi < N_beta_steps
       THEN /\ bi' = bi + 1
            /\ UNCHANGED <<ti, optPc>>
       ELSE IF ti < N_theta_steps
            THEN /\ bi' = 1
                 /\ ti' = ti + 1
                 /\ UNCHANGED optPc
            ELSE /\ optPc' = "store"
                 /\ UNCHANGED <<ti, bi>>
    /\ UNCHANGED <<cur, torque_max_angles>>

\* line 113: torque_max_angles[current] = max_angle
OptStore ==
    /\ optPc = "store"
    /\ torque_max_angles' = (iss_opt[cur] :> max_angle) @@ torque_max_angles
    /\ cur' = cur + 1
    /\ optPc' = "for_current"
    /\ UNCHANGED <<ti, bi, max_torque, max_angle, torque_vec>>

(***************************************************************************)
(* 02 - sampling sweep, lines 60-63: Beta = torque_max_angles[iss[i]].     *)
(* A missing key raises KeyError and ends the script.                      *)
(***************************************************************************)
SweepInit ==
    /\ sweepPc = "for_i"
    /\ sweep_i = 1
    /\ Beta = <<>>

SweepLookup ==
    /\ optPc = "done"
    /\ sweepPc = "for_i"
    /\ IF sweep_i > NSweep
       THEN /\ sweepPc' = "done"
            /\ UNCHANGED <<sweep_i, Beta>>
       ELSE IF iss_sweep[sweep_i] \in DOMAIN torque_max_angles
            THEN /\ Beta' = Append(Beta, torque_max_angles[iss_sweep[sweep_i]])
                 /\ sweep_i' = sweep_i + 1
                 /\ UNCHANGED sweepPc
            ELSE /\ sweepPc' = "KeyError"
                 /\ UNCHANGED <<sweep_i, Beta>>
    /\ UNCHANGED optVars

(***************************************************************************)
(* 03 - FFT and harmonic features.                                         *)
(*                                                                         *)
(* np.fft.fft(x, ns, axis=0)[k] = SUM_j x[j] * exp(-2 pi i j k / ns).  The *)
(* model runs the transform on step counts dividing 4, where every factor  *)
(* exp(-2 pi i q / 4) is one of 1, -i, -1, i and the sum is exact.         *)
(***************************************************************************)
QuarterTurn == << [re |-> 1, im |-> 0], [re |-> 0, im |-> -1],
                  [re |-> -1, im |-> 0], [re |-> 0, im |-> 1] >>

\* exp(-2 pi i q / n) for n in {1, 2, 4}
Twiddle(q, n) == QuarterTurn[((q * (Len(QuarterTurn) \div n)) % Len(QuarterTurn)) + 1]

RECURSIVE ISum(_)
ISum(s) == IF s = <<>> THEN 0 ELSE Head(s) + ISum(Tail(s))

\* harmonic k (0-based) of the real sequence x of n samples
FFT(x, k, n) ==
    [re |-> ISum([j \in 1..n |-> x[j] * Twiddle((j - 1) * k, n).re]),
     im |-> ISum([j \in 1..n |-> x[j] * Twiddle((j - 1) * k, n).im])]

(***************************************************************************)
(* Magnitudes and real powers, kept exact.  A magnitude is [sq |-> s], the *)
(* non-negative real whose square is s.  A power sum is                    *)
(* [rat |-> r, irr |-> terms]: r plus the sum of (sqrt t.sq)^(t.en/t.ed)   *)
(* over the terms, a term being a power with no rational value known.      *)
(***************************************************************************)
\* np.abs of a complex number
NpAbs(z) == [sq |-> R(z.re * z.re + z.im * z.im)]

\* magnitude * r, r >= 0
ScaleMag(m, r) == [sq |-> RMul(m.sq, RMul(r, r))]

Exact(r) == [rat |-> r, irr |-> <<>>]

RECURSIVE RPowInt(_, _)
RPowInt(x, e) == IF e = 0 THEN R(1) ELSE RMul(x, RPowInt(x, e - 1))

\* m ** (en/ed)
RealPow(m, en, ed) ==
    IF m.sq = R(0) THEN Exact(R(0))
    ELSE IF m.sq = R(1) THEN Exact(R(1))
    ELSE IF ed = 1 /\ en % 2 = 0 THEN Exact(RPowInt(m.sq, en \div 2))
    ELSE [rat |-> R(0), irr |-> <<[sq |-> m.sq, en |-> en, ed |-> ed]>>]

PAdd(a, b) == [rat |-> RAdd(a.rat, b.rat), irr |-> a.irr \o b.irr]

\* np.sqrt of a power sum
PSqrt(a) ==
    IF a.irr = <<>> /\ a.rat \in {R(0), R(1)} THEN a
    ELSE [rat |-> R(0), irr |-> <<[sqrtOf |-> a]>>]

\* the two-sided normalisation 1/ns, which line 170 does not use
ScaleTwoSided(n) == Rat(1, n)

\* lines 170-171 and 180: * 2 / ns
Scale(n) == Rat(2, n)

\* lines 170-171: np.abs(np.fft.fft(x, ns, axis=0)) * 2 / ns at harmonic k
AbsFFT(x, k, n) == ScaleMag(NpAbs(FFT(x, k, n)), Scale(n))

\* sample sequences over the angle steps of level i, element m
BReal(i, m) == [j \in 1..ns |-> b_flux[i][j][m].re]

BImag(i, m) == [j \in 1..ns |-> b_flux[i][j][m].im]

AReal(i, m) == [j \in 1..ns |-> A_flux[i][j][m]]

\* lines 170-171: the one-sided magnitudes of every harmonic and element
Bxfft(i) == [k \in 1..ns |-> [m \in 1..nn |-> AbsFFT(BReal(i, m), k - 1, ns)]]

Byfft(i) == [k \in 1..ns |-> [m \in 1..nn |-> AbsFFT(BImag(i, m), k - 1, ns)]]

\* bxfft ** (en/ed) + byfft ** (en/ed), elementwise
PowSum(bxfft, byfft, en, ed) ==
    [k \in 1..ns |-> [m \in 1..nn |->
        PAdd(RealPow(bxfft[k][m], en, ed), RealPow(byfft[k][m], en, ed))]]

\* line 174
Bsq(bxfft, byfft) == PowSum(bxfft, byfft, 2045, 1000)

\* line 175
BsqMod(b) == [k \in 1..ns |-> [m \in 1..nn |-> PSqrt(b[k][m])]]

\* line 176
BsqEx(bxfft, byfft) == PowSum(bxfft, byfft, 3, 2)

\* line 177
BsqBtt(bxfft, byfft) == PowSum(bxfft, byfft, 4, 1)

\* line 180: the complex spectrum of A times 2/ns, stored into the float
\* array Jm of line 160, which keeps the real part only
JmOf(i) == [k \in 1..ns |-> [m \in 1..nn |->
              RMul(R(FFT(AReal(i, m), k - 1, ns).re), Scale(ns))]]

\* current levels and mesh elements of the FFT runs
NLevFFT == 2

NElemFFT == 1

\* one element's samples over 4 angle steps: flux density x, y and potential A
Patterns ==
    { [x |-> <<1, 0, -1, 0>>,  y |-> <<0, 0, 0, 0>>,  a |-> <<0, 0, 0, 0>>],
      [x |-> <<0, -1, 0, 1>>,  y |-> <<0, 0, 0, 0>>,  a |-> <<0, 0, 0, 0>>],
      [x |-> <<1, 1, 1, 1>>,   y |-> <<1, 0, -1, 0>>, a |-> <<2, 1, 0, 1>>],
      [x |-> <<1, -1, 1, -1>>, y |-> <<0, 1, 0, -1>>, a |-> <<0, 0, 0, 0>>],
      [x |-> <<0, 0, 0, 0>>,   y |-> <<0, 0, 0, 0>>,  a |-> <<0, 0, 0, 0>>] }

\* lines 156-160: np.zeros((N, ns, nn))
ZerosP(n1, n2, n3) == [i \in 1..n1 |-> [k \in 1..n2 |-> [m \in 1..n3 |-> Exact(R(0))]]]

ZerosR(n1, n2, n3) == [i \in 1..n1 |-> [k \in 1..n2 |-> [m \in 1..n3 |-> R(0)]]]

\* lines 127-153: the sweep's arrays are loaded and the shapes read; the
\* arrays of lines 156-160 are not yet allocated
FFTInit ==
    /\ N = NLevFFT
    /\ ns = Len(QuarterTurn)
    /\ nn = NElemFFT
    /\ \E pat \in [(1..N) \X (1..NElemFFT) -> Patterns] :
         /\ b_flux = [i \in 1..N |-> [j \in 1..ns |-> [m \in 1..nn |->
                        [re |-> pat[<<i, m>>].x[j], im |-> pat[<<i, m>>].y[j]]]]]
         /\ A_flux = [i \in 1..N |-> [j \in 1..ns |-> [m \in 1..nn |->
                        pat[<<i, m>>].a[j]]]]
    /\ bsq = <<>> /\ bsq_mod = <<>> /\ bsq_ex = <<>> /\ bsq_btt = <<>> /\ Jm = <<>>
    /\ fft_i = 0

\* lines 156-160: the result arrays, all zero
FFTAllocate ==
    /\ fft_i = 0 /\ N > 0
    /\ bsq' = ZerosP(N, ns, nn)
    /\ bsq_mod' = ZerosP(N, ns, nn)
    /\ bsq_ex' = ZerosP(N, ns, nn)
    /\ bsq_btt' = ZerosP(N, ns, nn)
    /\ Jm' = ZerosR(N, ns, nn)
    /\ fft_i' = 1
    /\ UNCHANGED <<N, ns, nn, b_flux, A_flux>>

\* lines 168-180: one pass of the loop over the current levels
FFTLevel ==
    /\ fft_i \in 1..N
    /\ \E bxfft \in {Bxfft(fft_i)} : \E byfft \in {Byfft(fft_i)} :
       \E b \in {Bsq(bxfft, byfft)} :
         /\ bsq' = [bsq EXCEPT ![fft_i] = b]
         /\ bsq_mod' = [bsq_mod EXCEPT ![fft_i] = BsqMod(b)]
         /\ bsq_ex' = [bsq_ex EXCEPT ![fft_i] = BsqEx(bxfft, byfft)]
         /\ bsq_btt' = [bsq_btt EXCEPT ![fft_i] = BsqBtt(bxfft, byfft)]
    /\ Jm' = [Jm EXCEPT ![fft_i] = JmOf(fft_i)]
    /\ fft_i' = fft_i + 1
    /\ UNCHANGED <<N, ns, nn, b_flux, A_flux>>

\* the stage is not run: its names are unset
FFTIdle ==
    /\ N = 0 /\ ns = 0 /\ nn = 0 /\ b_flux = <<>> /\ A_flux = <<>> /\ bsq = <<>>
    /\ bsq_mod = <<>> /\ bsq_ex = <<>> /\ bsq_btt = <<>> /\ Jm = <<>> /\ fft_i = 0

OptIdle ==
    /\ optPc = "idle" /\ cur = 0 /\ ti = 0 /\ bi = 0 /\ max_torque = NegInf
    /\ max_angle = None /\ torque_vec = <<>> /\ torque_max_angles = <<>>
    /\ sweepPc = "idle" /\ sweep_i = 0 /\ Beta = <<>>

(***************************************************************************)
(* 04 - loss calculation.                                                  *)
(*                                                                         *)
(* The loss coefficients ch, ce, cePhase, omag, PhaseResistance and pi are *)
(* positive reals that the script only multiplies into sums.  A quantity   *)
(* of this stage is held as the exact fraction standing before each of     *)
(* them: [ch |-> a, ce |-> b, ...] is a*ch + b*ce + ... .  The field       *)
(* omag_pi2 stands before omag * pi^2.  A quantity is nan when a fraction  *)
(* of it is.                                                               *)
(***************************************************************************)
SpeedMin == 500

SpeedMax == 1200

NSpeed == 9

MyLowestHarmonic == 1

\* cs = 0.95
cs == Rat(19, 20)

LFZero == [ch |-> R(0), ce |-> R(0), cePhase |-> R(0), omag_pi2 |-> R(0),
           PhaseResistance |-> R(0), pi |-> R(0)]

LFields == DOMAIN LFZero

LFAdd(a, b) == [f \in LFields |-> RAdd(a[f], b[f])]

LFSub(a, b) == [f \in LFields |-> RSub(a[f], b[f])]

LFScale(r, a) == [f \in LFields |-> RMul(r, a[f])]

LFIsNaN(a) == \E f \in LFields : ~IsFinite(a[f])

\* a / b, kept as the pair
Quot(a, b) == [num |-> a, den |-> b]

\* element sampling of the sweep, lines 106-111 of the sampling script
IsMagnetTag(t) == t > 10

IsIronTag(t) == ~(t > 10) /\ t > 0

\* exactly representable entry of a spectrum array
Num(x) == x.rat

\* region masks, lines 67 and 106-108: (g == tag).astype(float)
RegionMask(tag) == [m \in 1..nn |-> IF g[m] = tag THEN R(1) ELSE R(0)]

g3 == RegionMask(11)

g1 == RegionMask(4)

g2 == RegionMask(5)

g4 == RegionMask(2)

\* a * b, elementwise
Hadamard(a, b) == [m \in 1..Len(a) |-> RMul(a[m], b[m])]

\* vector @ matrix: the matrix is indexed [row][column]
VecMat(x, M) == [m \in 1..nn |-> RSum([k \in 1..Len(x) |-> RMul(x[k], M[k][m])])]

\* line 56 and line 60: (Is_vec / sqrt 2)^2 * 3, the fraction before PhaseResistance
OhmicOf(i, kk) ==
    [LFZero EXCEPT !.PhaseResistance =
        RMul(R(3), Rat(Is_vec[i][kk] * Is_vec[i][kk], 2))]

\* line 68
vmag == Dot(v, g3)

\* line 69 on the level's spectrum J: np.dot(J, v * g3) / vmag, one entry per
\* harmonic order
JoOf(J) == [k \in 1..ns |-> RDiv(Dot(J[k], Hadamard(v, g3)), vmag)]

\* line 69
Jo(i) == JoOf(Jm_vec[i])

\* line 70 on the level's spectrum J: J -= np.outer(Jo, g3)
CorrectedOf(J) == [k \in 1..ns |-> [m \in 1..nn |->
                     RSub(J[k][m], RMul(JoOf(J)[k], g3[m]))]]

\* line 70: Jm_vec[i] -= np.outer(Jo, g3)
Corrected(i) == CorrectedOf(Jm_vec[i])

\* np.linspace(SpeedMin, SpeedMax, NSpeed)[j], j from 0
thisSpeed(j) == RAdd(R(SpeedMin), Rat(j * (SpeedMax - SpeedMin), NSpeed - 1))

thisFreq(j) == RDiv(thisSpeed(j), R(60))

\* the harmonic order with no mask, which line 103 does not use
HarmonicAll(k) == k

\* line 103: w1 * (w1 < ns / 2)
Harmonic(k) == IF 2 * k < ns THEN k ELSE 0

\* lines 102-103
w(j) == [k \in 1..ns |-> RMul(R(MyLowestHarmonic * Harmonic(k - 1)), thisFreq(j))]

wsq(j) == Hadamard(w(j), w(j))

\* x @ M @ weights
Integral(x, M, weights) == Dot(VecMat(x, M), weights)

BsqNum(i) == [k \in 1..ns |-> [m \in 1..nn |-> Num(bsq[i][k][m])]]

\* lines 111-112 on the spectrum B:
\* 8 * ((ch * w + ce * w**2) @ B @ (v * mask)) / cs
IronLossOf(B, j, mask) ==
    [LFZero EXCEPT
        !.ch = RDiv(RMul(R(8), Integral(w(j), B, Hadamard(v, mask))), cs),
        !.ce = RDiv(RMul(R(8), Integral(wsq(j), B, Hadamard(v, mask))), cs)]

\* lines 111-112 with Bsq = bsq[i]
IronLoss(i, j, mask) == IronLossOf(BsqNum(i), j, mask)

\* line 113 on the spectrum B
ProxLossOf(B, j) ==
    [LFZero EXCEPT !.cePhase = RMul(R(8), Integral(wsq(j), B, Hadamard(v, g4)))]

\* line 113
ProxLoss(i, j) == ProxLossOf(BsqNum(i), j)

\* np.abs(jm)**2
AbsSq(M) == [k \in 1..ns |-> [m \in 1..nn |-> RMul(M[k][m], M[k][m])]]

\* line 114 on the corrected spectrum J:
\* 8 * 0.5 * (omag * (2 pi w)^2) @ |J|^2 @ v
MagnetLossOf(J, j) ==
    [LFZero EXCEPT
        !.omag_pi2 = RMul(RMul(R(8), Rat(1, 2)),
                          RMul(R(4), Integral(wsq(j), AbsSq(J), v)))]

\* line 114 with jm = Jm_vec[i]
MagnetLoss(i, j) == MagnetLossOf(Jm_vec[i], j)

\* line 98: np.mean(Tq[i][:])
Torque_value(i) == RDiv(R(ISum(Tq[i])), R(Len(Tq[i])))

\* line 130: pi * thisSpeed / 30
omega(j) == [LFZero EXCEPT !.pi = RDiv(thisSpeed(j), R(30))]

\* lines 75-87: np.zeros((N, NSpeed)) and np.zeros(NSpeed)
ZerosLF == [i \in 1..N |-> [j \in 1..NSpeed |-> LFZero]]

ZerosQ == [i \in 1..N |-> [j \in 1..NSpeed |-> Quot(LFZero, omega(0))]]

\* spectrum rows the inputs are built from
LossSteps == {1, 2}

NLevLoss == 1

NElemLoss == 2

Tags == {0, 2, 4, 5, 11, 12}

Areas == {0, 1, 2}

\* the names the loss script has not assigned yet
LossUnset ==
    /\ bsq_mod = bsq
    /\ bsq_ex = bsq
    /\ bsq_btt = bsq
    /\ b_flux = <<>> /\ A_flux = <<>> /\ fft_i = 0
    /\ lossPc = "ohmic" /\ PhaseOhmicLoss = <<>> /\ Jm_vec = <<>>
    /\ corr_i = 0 /\ loss_i = 0 /\ loss_j = 0
    /\ rotor_loss = <<>> /\ stator_loss = <<>> /\ prox_loss = <<>>
    /\ magnet_loss = <<>> /\ phase_loss = <<>> /\ total_loss = <<>>
    /\ total_loss_matrix = <<>> /\ stator_loss_matrix = <<>>
    /\ rotor_loss_matrix = <<>> /\ magnet_loss_matrix = <<>>
    /\ phase_loss_matrix = <<>> /\ prox_loss_matrix = <<>> /\ Speed = <<>>
    /\ Pin = <<>> /\ Tin = <<>> /\ Pout = <<>> /\ Tout = <<>> /\ Eff = <<>>

LossInit ==
    /\ N = NLevLoss
    /\ nn = NElemLoss
    /\ ns \in LossSteps
    /\ g \in [1..nn -> Tags]
    /\ v \in [1..nn -> {R(a) : a \in Areas}]
    /\ \E cur_i \in [1..N -> {1, 2}] : Is_vec = [i \in 1..N |-> [kk \in 1..ns |-> cur_i[i]]]
    /\ Tq \in [1..N -> [1..ns -> {0, 1}]]
    /\ \E row \in [(1..N) \X (1..nn) -> [1..ns -> {0, 1}]] :
         /\ bsq = [i \in 1..N |-> [k \in 1..ns |-> [m \in 1..nn |->
                     IF IsIronTag(g[m]) THEN Exact(R(row[<<i, m>>][k])) ELSE Exact(R(0))]]]
         /\ Jm = [i \in 1..N |-> [k \in 1..ns |-> [m \in 1..nn |->
                     IF IsMagnetTag(g[m]) THEN R(row[<<i, m>>][k]) ELSE R(0)]]]
    /\ LossUnset

\* angle-step counts, region tags and spectrum levels of the runs on the
\* frequency mask: one step (order 0 only), and 3 and 4 steps, where order 1
\* is below ns/2 and the orders from 2 on are not; every element in a region
\* that has a mask; unit areas, unit current, unit torque; each element's
\* spectrum the same at every harmonic order and growing with the current
\* level
NyquistSteps == {1, 3, 4}

MaskedTags == {2, 4, 5, 11}

SpectrumLevels == {0, 1}

NyquistInit ==
    /\ N = NLevLoss
    /\ nn = NElemLoss
    /\ ns \in NyquistSteps
    /\ g \in [1..nn -> MaskedTags]
    /\ v = [m \in 1..nn |-> R(1)]
    /\ Is_vec = [i \in 1..N |-> [kk \in 1..ns |-> 1]]
    /\ Tq = [i \in 1..N |-> [kk \in 1..ns |-> 1]]
    /\ \E lev \in [1..nn -> SpectrumLevels] :
         /\ bsq = [i \in 1..N |-> [k \in 1..ns |-> [m \in 1..nn |->
                     IF IsIronTag(g[m]) THEN Exact(R(i * lev[m])) ELSE Exact(R(0))]]]
         /\ Jm = [i \in 1..N |-> [k \in 1..ns |-> [m \in 1..nn |->
                     IF IsMagnetTag(g[m]) THEN R(i * lev[m]) ELSE R(0)]]]
    /\ LossUnset

\* lines 56-60
PhaseOhmic ==
    /\ lossPc = "ohmic"
    /\ PhaseOhmicLoss' = [i \in 1..N |-> [kk \in 1..ns |-> OhmicOf(i, kk)]]
    /\ lossPc' = "copy"
    /\ UNCHANGED <<fftVars, lossInputs, Jm_vec, corr_i, loss_i, loss_j, lossLocals,
                   lossMatrices>>

\* line 65: Jm_vec = Jm.copy()
MagnetCopy ==
    /\ lossPc = "copy"
    /\ Jm_vec' = Jm
    /\ corr_i' = 1
    /\ lossPc' = "correct"
    /\ UNCHANGED <<fftVars, lossInputs, PhaseOhmicLoss, loss_i, loss_j, lossLocals,
                   lossMatrices>>

\* lines 66-70: one pass of the loop; the division by vmag raises nothing
MagnetCorrect ==
    /\ lossPc = "correct"
    /\ IF corr_i <= N
       THEN /\ Jm_vec' = [Jm_vec EXCEPT ![corr_i] = Corrected(corr_i)]
            /\ corr_i' = corr_i + 1
            /\ UNCHANGED lossPc
       ELSE /\ lossPc' = "alloc"
            /\ UNCHANGED <<Jm_vec, corr_i>>
    /\ UNCHANGED <<fftVars, lossInputs, PhaseOhmicLoss, loss_i, loss_j, lossLocals,
                   lossMatrices>>

\* lines 75-87
Allocate ==
    /\ lossPc = "alloc"
    /\ total_loss_matrix' = ZerosLF
    /\ stator_loss_matrix' = ZerosLF
    /\ rotor_loss_matrix' = ZerosLF
    /\ magnet_loss_matrix' = ZerosLF
    /\ phase_loss_matrix' = ZerosLF
    /\ prox_loss_matrix' = ZerosLF
    /\ Speed' = [j \in 1..NSpeed |-> R(0)]
    /\ Pin' = ZerosLF
    /\ Tin' = ZerosQ
    /\ Pout' = ZerosLF
    /\ Tout' = ZerosQ
    /\ Eff' = ZerosQ
    /\ loss_i' = 1
    /\ loss_j' = 1
    /\ lossPc' = "loop"
    /\ UNCHANGED <<fftVars, lossInputs, PhaseOhmicLoss, Jm_vec, corr_i, lossLocals>>

\* lines 92-135: one (current level, speed) point.  total_loss is the sum of
\* four scalars and the row PhaseOhmicLoss[i], so it is an array of ns
\* entries; storing it into one matrix cell (line 121) raises ValueError
\* unless it has exactly one entry.
LossPoint ==
    /\ lossPc = "loop"
    /\ IF loss_i > N
       THEN /\ lossPc' = "done"
            /\ UNCHANGED <<loss_i, loss_j, lossLocals, lossMatrices>>
       ELSE \E i \in {loss_i}, j \in {loss_j} :
            \E rotor \in {IronLoss(i, j - 1, g1)},
               stator \in {IronLoss(i, j - 1, g2)},
               prox \in {ProxLoss(i, j - 1)},
               magnet \in {MagnetLoss(i, j - 1)},
               phase \in {PhaseOhmicLoss[i]},
               om \in {omega(j - 1)} :
            \E total \in {[kk \in 1..Len(phase) |->
                             LFAdd(LFAdd(LFAdd(LFAdd(rotor, stator), prox), phase[kk]),
                                   magnet)]},
               pout \in {LFScale(Torque_value(i), om)} :
            \E pin \in {LFAdd(pout, total[1])} :
                /\ rotor_loss' = rotor
                /\ stator_loss' = stator
                /\ prox_loss' = prox
                /\ magnet_loss' = magnet
                /\ phase_loss' = phase
                /\ total_loss' = total
                /\ IF Len(total) # 1
                   THEN /\ lossPc' = "ValueError"
                        /\ UNCHANGED <<loss_i, loss_j, lossMatrices>>
                   ELSE /\ total_loss_matrix' = [total_loss_matrix EXCEPT ![i][j] = total[1]]
                        /\ stator_loss_matrix' = [stator_loss_matrix EXCEPT ![i][j] = stator]
                        /\ rotor_loss_matrix' = [rotor_loss_matrix EXCEPT ![i][j] = rotor]
                        /\ magnet_loss_matrix' = [magnet_loss_matrix EXCEPT ![i][j] = magnet]
                        /\ phase_loss_matrix' = [phase_loss_matrix EXCEPT ![i][j] = phase[1]]
                        /\ prox_loss_matrix' = [prox_loss_matrix EXCEPT ![i][j] = prox]
                        /\ Speed' = [Speed EXCEPT ![j] = thisSpeed(j - 1)]
                        /\ Pout' = [Pout EXCEPT ![i][j] = pout]
                        /\ Pin' = [Pin EXCEPT ![i][j] = pin]
                        /\ Tout' = [Tout EXCEPT ![i][j] = Quot(pin, om)]
                        /\ Tin' = [Tin EXCEPT ![i][j] = Quot(LFSub(pin, total[1]), om)]
                        /\ Eff' = [Eff EXCEPT ![i][j] = Quot(LFScale(R(100), pout), pin)]
                        /\ IF j < NSpeed
                           THEN loss_j' = j + 1 /\ UNCHANGED loss_i
                           ELSE loss_j' = 1 /\ loss_i' = i + 1
                        /\ UNCHANGED lossPc
    /\ UNCHANGED <<fftVars, lossInputs, PhaseOhmicLoss, Jm_vec, corr_i>>

\* the stage is not run: its names are unset
LossIdle ==
    /\ g = <<>> /\ v = <<>> /\ Is_vec = <<>> /\ Tq = <<>>
    /\ lossPc = "idle" /\ PhaseOhmicLoss = <<>> /\ Jm_vec = <<>>
    /\ corr_i = 0 /\ loss_i = 0 /\ loss_j = 0
    /\ rotor_loss = <<>> /\ stator_loss = <<>> /\ prox_loss = <<>>
    /\ magnet_loss = <<>> /\ phase_loss = <<>> /\ total_loss = <<>>
    /\ total_loss_matrix = <<>> /\ stator_loss_matrix = <<>>
    /\ rotor_loss_matrix = <<>> /\ magnet_loss_matrix = <<>>
    /\ phase_loss_matrix = <<>> /\ prox_loss_matrix = <<>> /\ Speed = <<>>
    /\ Pin = <<>> /\ Tin = <<>> /\ Pout = <<>> /\ Tout = <<>> /\ Eff = <<>>

(***************************************************************************)
(* Specifications.                                                         *)
(***************************************************************************)
SpecOptInit == OptInit /\ SweepInit /\ FFTIdle /\ LossIdle

SpecOptNext ==
    \/ (OptNextCurrent /\ UNCHANGED <<sweepVars, fftVars, lossVars>>)
    \/ (OptSample /\ UNCHANGED <<sweepVars, fftVars, lossVars>>)
    \/ (OptStore /\ UNCHANGED <<sweepVars, fftVars, lossVars>>)
    \/ (SweepLookup /\ UNCHANGED <<fftVars, lossVars>>)

SpecOpt == SpecOptInit /\ [][SpecOptNext]_vars

SpecFFTInit == FFTInit /\ OptIdle /\ LossIdle

SpecFFTNext ==
    \/ (FFTAllocate /\ UNCHANGED <<optVars, sweepVars, lossVars>>)
    \/ (FFTLevel /\ UNCHANGED <<optVars, sweepVars, lossVars>>)

SpecFFT == SpecFFTInit /\ [][SpecFFTNext]_vars

SpecLossInit == LossInit /\ OptIdle

SpecLossNext ==
    \/ (PhaseOhmic /\ UNCHANGED <<optVars, sweepVars>>)
    \/ (MagnetCopy /\ UNCHANGED <<optVars, sweepVars>>)
    \/ (MagnetCorrect /\ UNCHANGED <<optVars, sweepVars>>)
    \/ (Allocate /\ UNCHANGED <<optVars, sweepVars>>)
    \/ (LossPoint /\ UNCHANGED <<optVars, sweepVars>>)

SpecLoss == SpecLossInit /\ [][SpecLossNext]_vars

SpecNyquistInit == NyquistInit /\ OptIdle

SpecNyquist == SpecNyquistInit /\ [][SpecLossNext]_vars

(***************************************************************************)
(* Claims on the search and the hand-over.                                 *)
(***************************************************************************)
\* the torque the solver returned for current number c at angle number k
TorqueAt(c, k) == torque_vec[(c - 1) * N_theta_steps * N_beta_steps + k]

\* current number c has been stored by line 113
Stored(c) == c \in 1..NOpt /\ iss_opt[c] \in DOMAIN torque_max_angles

\* C1: for every current magnitude stored in the mapping, the recorded angle
\* is one of the candidate angles, the torque sampled at it is >= the torque
\* sampled at every candidate angle of that current, and it is the first
\* (lowest) candidate attaining that maximum.
C1_ArgMaxFirst ==
    \A c \in 1..NOpt :
        Stored(c) =>
            LET a == torque_max_angles[iss_opt[c]]
            IN  /\ a # None
                /\ a[1] \in BetaSet
                /\ \E k \in 1..N_beta_steps :
                     /\ BETA(k) = a[1]
                     /\ \A k2 \in 1..N_beta_steps : TorqueAt(c, k2) <= TorqueAt(c, k)
                     /\ \A k2 \in 1..(k - 1) : TorqueAt(c, k2) < TorqueAt(c, k)

\* C1 witness: the search has finished and some current has its maximum
\* attained at two angles, the recorded one being the earlier of them and not
\* the first candidate.
C1_Witness ==
    /\ optPc = "done"
    /\ \E c \in 1..NOpt : \E k \in 2..N_beta_steps : \E k2 \in (k + 1)..N_beta_steps :
         /\ Stored(c)
         /\ torque_max_angles[iss_opt[c]] = <<BETA(k)>>
         /\ TorqueAt(c, k2) = TorqueAt(c, k)
         /\ \A k3 \in 1..N_beta_steps : TorqueAt(c, k3) <= TorqueAt(c, k)

\* C2: once the search has finished, the mapping has an entry for every
\* current level the sampling sweep iterates over, the sweep's lookup never
\* fails, and every angle the sweep uses is the stored angle of its level.
C2_HandOff ==
    /\ optPc = "done" => \A i \in 1..NSweep : iss_sweep[i] \in DOMAIN torque_max_angles
    /\ sweepPc # "KeyError"
    /\ \A i \in 1..Len(Beta) : <<Beta[i]>> = <<torque_max_angles[iss_sweep[i]]>>

(***************************************************************************)
(* Claims on the harmonic features.                                        *)
(***************************************************************************)
\* cos(2 pi j / 4 + phase), j = 0..3, at the four phases with integer samples
UnitFundamentals ==
    { <<1, 0, -1, 0>>, <<0, -1, 0, 1>>, <<-1, 0, 1, 0>>, <<0, 1, 0, -1>> }

\* element m of level i carries a unit sinusoid at the fundamental in x and
\* nothing in y, over 4 angle steps, and its level has been transformed
ScenarioElement(i, m) ==
    /\ ns = 4
    /\ fft_i > i
    /\ BReal(i, m) \in UnitFundamentals
    /\ BImag(i, m) = [j \in 1..ns |-> 0]

\* C9 as stated: on a scenario element the general-loss term is 1 at harmonic
\* order 1 and 0 at the orders 0, 2 and 3.
C9_FundamentalOnly ==
    \A i \in 1..N : \A m \in 1..nn :
        ScenarioElement(i, m) =>
            /\ bsq[i][2][m] = Exact(R(1))
            /\ \A k \in {0, 2, 3} : bsq[i][k + 1][m] = Exact(R(0))

\* C9 amended: on a scenario element the general-loss term is 1 at harmonic
\* order 1 and at its mirror order 3 (= ns - 1), and 0 at the orders 0 and 2.
C9_FundamentalAndMirror ==
    \A i \in 1..N : \A m \in 1..nn :
        ScenarioElement(i, m) =>
            /\ \A k \in {1, 3} : bsq[i][k + 1][m] = Exact(R(1))
            /\ \A k \in {0, 2} : bsq[i][k + 1][m] = Exact(R(0))

\* C9 witness: every level is transformed and holds a scenario element whose
\* term at order 3 is 1.
C9_Witness ==
    /\ fft_i > N
    /\ \A i \in 1..N : \E m \in 1..nn :
         ScenarioElement(i, m) /\ bsq[i][4][m] = Exact(R(1))

(***************************************************************************)
(* Claims on the loss calculation.                                         *)
(***************************************************************************)
\* equality of two numbers: nan equals nothing
REq(x, y) == IsFinite(x) /\ IsFinite(y) /\ x = y

LFEq(a, b) == ~LFIsNaN(a) /\ ~LFIsNaN(b) /\ a = b

\* signs of a quantity whose fractions all have one sign (the coefficients
\* are positive)
LFIsZero(a) == \A f \in LFields : a[f] = R(0)

LFNonNeg(a) == \A f \in LFields : IsFinite(a[f]) /\ RSign(a[f]) >= 0

LFPos(a) == LFNonNeg(a) /\ ~LFIsZero(a)

LFNonPos(a) == \A f \in LFields : IsFinite(a[f]) /\ RSign(a[f]) <= 0

\* level i has been through the magnet correction
CorrectedLevel(i) == lossPc # "idle" /\ corr_i > i

\* the magnet regions of the sweep: tags sampled as magnet
MagnetTags == {g[m] : m \in {e \in 1..nn : IsMagnetTag(g[e])}}

RegionArea(t) == Dot(v, RegionMask(t))

\* area-weighted mean of the row x over the elements of region t
RegionMean(x, t) == RDiv(Dot(x, Hadamard(v, RegionMask(t))), RegionArea(t))

\* C3: after the correction of a level, for every magnet region of non-zero
\* area and every harmonic order, the area-weighted mean of the corrected
\* coefficients over the elements of that magnet is 0 (stated for the runs
\* where the divisor vmag is not 0).
C3_MagnetMeanZero ==
    \A i \in 1..N :
        (CorrectedLevel(i) /\ vmag # R(0)) =>
            \A t \in MagnetTags :
                RegionArea(t) # R(0) =>
                    \A k \in 1..ns : REq(RegionMean(Jm_vec[i][k], t), R(0))

\* C4: the correction works on a copy: in the corrected copy every entry of
\* a non-magnet element equals the uncorrected entry, for every corrected
\* level and harmonic order (Jm itself is left as it was: no step assigns it).
C4_NonMagnetUntouched ==
    \A i \in 1..N :
        CorrectedLevel(i) =>
            \A k \in 1..ns : \A m \in 1..nn :
                ~IsMagnetTag(g[m]) => REq(Jm_vec[i][k][m], Jm[i][k][m])

\* C5: with a magnet region of zero total area the correction stops with a
\* configuration error; it never goes on with nan in the corrected spectrum
\* or in a loss.
C5_ZeroAreaFails ==
    /\ (lossPc # "idle" /\ corr_i > 1 /\ vmag = R(0)) => lossPc = "ConfigurationError"
    /\ \A i \in 1..N : CorrectedLevel(i) =>
         \A k \in 1..ns : \A m \in 1..nn : IsFinite(Jm_vec[i][k][m])
    /\ magnet_loss # <<>> => ~LFIsNaN(magnet_loss)

\* the point (i, j) has been stored by lines 121-135
StoredPoint(i, j) ==
    /\ lossPc \in {"loop", "done"}
    /\ i \in 1..N /\ j \in 1..NSpeed
    /\ (i < loss_i \/ (i = loss_i /\ j < loss_j))

\* a stored quotient is a plain finite number
Ordinary(q) == ~LFIsNaN(q.num) /\ ~LFIsNaN(q.den) /\ ~LFIsZero(q.den)

\* 0 < q <= 100
InPercentRange(q) ==
    /\ LFPos(q.num)
    /\ LFPos(q.den)
    /\ LFNonNeg(LFSub(LFScale(R(100), q.den), q.num))

\* C6: a stored point with input power <= 0 or output power = 0 has its
\* efficiency flagged, not stored as a plain number; a stored point with
\* positive input and output power has its efficiency in (0, 100].
C6_EfficiencyGuarded ==
    \A i \in 1..N : \A j \in 1..NSpeed :
        StoredPoint(i, j) =>
            /\ (LFNonPos(Pin[i][j]) \/ LFIsZero(Pout[i][j])) => ~Ordinary(Eff[i][j])
            /\ (LFPos(Pin[i][j]) /\ LFPos(Pout[i][j])) => InPercentRange(Eff[i][j])

\* C7: once the masks are in use, at every element that carries a region
\* tag the rotor, stator, winding and magnet masks add up to exactly 1.
C7_MasksPartition ==
    total_loss # <<>> =>
        \A m \in {e \in 1..nn : g[e] > 0} : RAdd(RAdd(g1[m], g2[m]), RAdd(g4[m], g3[m])) = R(1)

\* every entry of the spectra handed to the stage is zero
ZeroField ==
    /\ \A i \in 1..N : \A k \in 1..ns : \A m \in 1..nn :
         bsq[i][k][m] = Exact(R(0)) /\ Jm[i][k][m] = R(0)

\* C8: with zero field, every computed point has stator, rotor, proximity
\* and magnet loss exactly 0 and total loss equal to the ohmic loss, and so
\* has every stored point.
C8_ZeroFieldOnlyOhmic ==
    ZeroField =>
        /\ total_loss # <<>> =>
             /\ LFEq(rotor_loss, LFZero) /\ LFEq(stator_loss, LFZero)
             /\ LFEq(prox_loss, LFZero) /\ LFEq(magnet_loss, LFZero)
             /\ \A kk \in 1..Len(total_loss) : LFEq(total_loss[kk], phase_loss[kk])
        /\ \A i \in 1..N : \A j \in 1..NSpeed :
             StoredPoint(i, j) =>
                /\ LFEq(rotor_loss_matrix[i][j], LFZero)
                /\ LFEq(stator_loss_matrix[i][j], LFZero)
                /\ LFEq(prox_loss_matrix[i][j], LFZero)
                /\ LFEq(magnet_loss_matrix[i][j], LFZero)
                /\ LFEq(total_loss_matrix[i][j], phase_loss_matrix[i][j])

\* C10: with a magnet region of non-zero area the aggregation raises
\* nothing; every stored point has its total equal to the sum of its five
\* stored components, and the ohmic component of a level is the same at
\* every stored speed.
C10_TotalsStored ==
  vmag # R(0) =>
    /\ lossPc # "ValueError"
    /\ \A i \in 1..N : \A j \in 1..NSpeed :
         StoredPoint(i, j) =>
            /\ LFEq(total_loss_matrix[i][j],
                    LFAdd(LFAdd(LFAdd(LFAdd(stator_loss_matrix[i][j],
                                            rotor_loss_matrix[i][j]),
                                      prox_loss_matrix[i][j]),
                                magnet_loss_matrix[i][j]),
                          phase_loss_matrix[i][j]))
            /\ \A j2 \in 1..NSpeed :
                 StoredPoint(i, j2) =>
                    LFEq(phase_loss_matrix[i][j], phase_loss_matrix[i][j2])

(***************************************************************************)
(* Claim on the frequency mask.                                            *)
(***************************************************************************)
\* row k of a spectrum holds harmonic order k - 1; the orders the claim
\* speaks of: at or above ns/2, or 0
MaskedOrder(k) == 2 * (k - 1) >= ns \/ k - 1 = 0

\* values written over the masked orders
RefillValues == {0, 1, 2}

\* the spectrum M with every entry of a masked order replaced by c
Refilled(M, c) ==
    [k \in 1..ns |-> [m \in 1..nn |-> IF MaskedOrder(k) THEN R(c) ELSE M[k][m]]]

\* res holds the four loss results of level i at speed index j (from 0) as
\* computed from the level's spectra with the masked orders replaced by c,
\* for every c
Unchanged(i, j, res) ==
    \A c \in RefillValues :
        \E B \in {Refilled(BsqNum(i), c)}, J \in {CorrectedOf(Refilled(Jm[i], c))} :
            res = [rotor  |-> IronLossOf(B, j, g1),
                   stator |-> IronLossOf(B, j, g2),
                   prox   |-> ProxLossOf(B, j),
                   magnet |-> MagnetLossOf(J, j)]

\* the point whose losses the names rotor_loss ... magnet_loss hold: the one
\* a run stopped at, else the one stored last
LastLevel ==
    IF lossPc = "ValueError" \/ loss_j > 1 THEN loss_i ELSE loss_i - 1

LastSpeed ==
    IF lossPc = "ValueError" THEN loss_j
    ELSE IF loss_j > 1 THEN loss_j - 1 ELSE NSpeed

\* C11: at every point, as it is computed, the frequency weight of every
\* harmonic order k >= ns/2, and of order 0, is zero, and the stator, rotor,
\* proximity and magnet loss are the ones the changed spectrum gives,
\* whatever value is written over the orders k >= ns/2 and 0; so are the
\* losses the finished run has stored.
C11_NyquistMasked ==
    /\ total_loss # <<>> =>
         /\ \A k \in 1..ns : MaskedOrder(k) => w(LastSpeed - 1)[k] = R(0)
         /\ Unchanged(LastLevel, LastSpeed - 1,
                      [rotor |-> rotor_loss, stator |-> stator_loss,
                       prox |-> prox_loss, magnet |-> magnet_loss])
    /\ lossPc = "done" =>
         \A i \in 1..N : \A j \in 1..NSpeed :
            Unchanged(i, j - 1,
                      [rotor |-> rotor_loss_matrix[i][j],
                       stator |-> stator_loss_matrix[i][j],
                       prox |-> prox_loss_matrix[i][j],
                       magnet |-> magnet_loss_matrix[i][j]])

\* C11 witness: a point computed over 4 angle steps whose rotor loss is not
\* zero (order 1 counts) while the rotor spectrum is not zero at order 2.
C11_Witness ==
    /\ lossPc = "ValueError"
    /\ ns = 4
    /\ ~LFIsZero(rotor_loss) /\ ~LFIsNaN(rotor_loss)
    /\ \E m \in 1..nn : g[m] = 4 /\ bsq[loss_i][3][m] # Exact(R(0))

====
